---- MODULE Spec2Model ----
(***************************************************************************)
(* A model of shell.c: the tokenizer, the cd built-in and the command loop *)
(* with its fork / exec / wait handling.                                   *)
(*                                                                         *)
(* C strings are sequences of one-character strings.  A buffer ("mem") is  *)
(* a sequence of bytes that ends with the NUL byte; a pointer into it is a *)
(* 1-based index and the null pointer is NULLP.                            *)
(***************************************************************************)
EXTENDS Integers, Sequences, FiniteSets, TLC

VARIABLES
    pc,        \* position of the shell process in main()
    first,     \* TRUE until the first getline() call (input still uninitialised)
    eof,       \* stdin has reached end-of-input
    cwd,       \* the process's working directory (canonical path, as getcwd gives it)
    env,       \* the environment: HOME, OLDPWD, PWD
    sigchld,   \* disposition of SIGCHLD in the shell process
    children,  \* child processes of the shell: pid -> process record
    cur,       \* the iteration in progress: buffer, command_args, arg_count, child_pid
    last,      \* what the most recent dispatch did (outputs, exit status, cd record)
    tk         \* a call of tokenize() on its own: arguments and result

vars == <<pc, first, eof, cwd, env, sigchld, children, cur, last, tk>>

----------------------------------------------------------------------------
(* Bounds of the model *)

\* longest string handed to the stand-alone tokenizer
MaxStrLen == 5
\* largest capacity handed to the stand-alone tokenizer
MaxCap == 4
\* capacity of command_args[] and of cd's path[] (2048 in shell.c, scaled down)
BIG_NUM == 4
\* size of cd's cur_path[] and new_path[], the limit of the cd length check and the
\* longest path chdir() takes, terminator included (4096 in shell.c, scaled down
\* in proportion to BIG_NUM)
PATH_MAX == 8
\* depth of the directory tree /a/a/.../a
DirDepth == 3
\* most children of the shell that exist at one time
MaxKids == 2
\* most segments of a generated cd argument
MaxSegs == 4
\* most tokens of the command_args a child is started with on its own
MaxArgs == 3

----------------------------------------------------------------------------
(* Bytes, strings and buffers *)

NUL == "NUL"
\* the null pointer, as a pointer into a buffer and as a char* result (getenv)
NULLP == 0
NullStr == <<NUL>>

Min(a, b) == IF a < b THEN a ELSE b

\* the buffer holding the C string s
MemOf(s) == Append(s, NUL)

RECURSIVE strlen_at(_, _)
\* strlen(mem + p - 1): number of bytes before the next NUL
strlen_at(mem, p) == IF mem[p] = NUL THEN 0 ELSE 1 + strlen_at(mem, p + 1)

\* the C string a pointer denotes
CStr(mem, p) == SubSeq(mem, p, p + strlen_at(mem, p) - 1)

RECURSIVE strspn_end(_, _, _)
\* s + strspn(s, delim)
strspn_end(mem, s, delim) ==
    IF mem[s] \in delim THEN strspn_end(mem, s + 1, delim) ELSE s

RECURSIVE strcspn_end(_, _, _)
\* s + strcspn(s, delim)
strcspn_end(mem, s, delim) ==
    IF mem[s] = NUL \/ mem[s] \in delim THEN s ELSE strcspn_end(mem, s + 1, delim)

\* strtok: skip leading delimiters, return the token's start (or NULLP), overwrite
\* the delimiter that ends it with NUL and remember where to go on
strtok(mem, s, delim) ==
    LET b == strspn_end(mem, s, delim)
        e == strcspn_end(mem, b, delim)
    IN  IF mem[b] = NUL THEN [word |-> NULLP, save |-> b, mem |-> mem]
        ELSE IF mem[e] = NUL THEN [word |-> b, save |-> e, mem |-> mem]
        ELSE [word |-> b, save |-> e + 1, mem |-> [mem EXCEPT ![e] = NUL]]

----------------------------------------------------------------------------
(* tokenize() *)

RECURSIVE tokenize_loop_upto_limit(_, _, _, _, _)
\* tokenize_loop with the loop bound off by one (token_count < limit)
tokenize_loop_upto_limit(t, delim, tokens, token_count, limit) ==
    IF t.word # NULLP /\ token_count < limit
    THEN tokenize_loop_upto_limit(strtok(t.mem, t.save, delim), delim,
                       (token_count :> t.word) @@ tokens, token_count + 1, limit)
    ELSE [mem         |-> t.mem,
          tokens      |-> (token_count :> NULLP) @@ tokens,
          token_count |-> token_count,
          ret         |-> IF token_count < limit - 1 THEN 0 ELSE -1]

RECURSIVE tokenize_loop(_, _, _, _, _)
\* the while loop of tokenize and what follows it; tokens maps each slot written
\* to the pointer stored there
tokenize_loop(t, delim, tokens, token_count, limit) ==
    IF t.word # NULLP /\ token_count < limit - 1
    THEN tokenize_loop(strtok(t.mem, t.save, delim), delim,
                       (token_count :> t.word) @@ tokens, token_count + 1, limit)
    ELSE [mem         |-> t.mem,
          tokens      |-> (token_count :> NULLP) @@ tokens,
          token_count |-> token_count,
          ret         |-> IF token_count < limit - 1 THEN 0 ELSE -1]

\* int tokenize(char* string, char* delimiter, char* tokens[], int* token_count)
tokenize(mem, string, delimiter, limit) ==
    tokenize_loop(strtok(mem, string, delimiter), delimiter, <<>>, 0, limit)


----------------------------------------------------------------------------
(* The file system and the OS calls on it *)

\* a directory is the sequence of its path's names; the tree is /, /a, /a/a, ...
DirName == <<"a">>
Dirs == {[i \in 1..n |-> DirName] : n \in 0..DirDepth}

RECURSIVE PathStr(_)
\* the canonical absolute path of a directory, as getcwd() gives it
PathStr(d) ==
    IF d = <<>> THEN <<"/">>
    ELSE IF Len(d) = 1 THEN <<"/">> \o d[1]
    ELSE PathStr(SubSeq(d, 1, Len(d) - 1)) \o <<"/">> \o d[Len(d)]

RECURSIVE Components(_, _)
\* the names of a path, split on "/" (acc is the name being read)
Components(s, acc) ==
    IF s = <<>> THEN (IF acc = <<>> THEN <<>> ELSE <<acc>>)
    ELSE IF Head(s) = "/"
         THEN (IF acc = <<>> THEN <<>> ELSE <<acc>>) \o Components(Tail(s), <<>>)
         ELSE Components(Tail(s), Append(acc, Head(s)))

RECURSIVE Walk(_, _)
\* path resolution from directory d along names: the directory reached, or the errno
Walk(d, names) ==
    IF names = <<>> THEN [errno |-> "0", dir |-> d]
    ELSE IF Head(names) = <<".", ".">>
         THEN Walk(IF d = <<>> THEN d ELSE SubSeq(d, 1, Len(d) - 1), Tail(names))
    ELSE IF Append(d, Head(names)) \in Dirs
         THEN Walk(Append(d, Head(names)), Tail(names))
    ELSE [errno |-> "ENOENT", dir |-> d]

\* chdir(path) from directory d: errno and the directory the process is in afterwards
chdir(d, path) ==
    IF Len(path) >= PATH_MAX THEN [errno |-> "ENAMETOOLONG", dir |-> d]
    ELSE IF path = <<>> THEN [errno |-> "ENOENT", dir |-> d]
    ELSE LET w == Walk(IF path[1] = "/" THEN <<>> ELSE d, Components(path, <<>>))
         IN  [errno |-> w.errno, dir |-> IF w.errno = "0" THEN w.dir ELSE d]

----------------------------------------------------------------------------
(* cd(): assembling new_path *)

RECURSIVE cd_append_no_separator(_, _, _)
\* cd_append without the strcat of the separator
cd_append_no_separator(new_path, path, i) ==
    IF i > Len(path) THEN new_path
    ELSE cd_append_no_separator(new_path \o path[i], path, i + 1)

RECURSIVE cd_append(_, _, _)
\* the for loop of cd: strcat(new_path, "/"); strcat(new_path, path[i])
cd_append(new_path, path, i) ==
    IF i > Len(path) THEN new_path
    ELSE cd_append(new_path \o <<"/">> \o path[i], path, i + 1)

\* cd_no_argument with a separator appended to the home directory
cd_no_argument_with_separator(home) == home \o <<"/">>

\* the no-argument branch of cd: new_path[0] = '\0'; strcat(new_path, home)
cd_no_argument(home) == <<>> \o home

\* the path cd assembles from given_path (a pointer into mem, or NULLP).
\* fault: "null" when a null pointer is handed to strcmp/strcpy/strcat,
\* "overflow" when more than PATH_MAX bytes are written to new_path.
cd_new_path(mem, given_path, cur_path, home, old_path) ==
    LET t == tokenize(mem, given_path, {"/"}, BIG_NUM)
        path == [i \in 1..t.token_count |-> CStr(t.mem, t.tokens[i - 1])]
        rooted == mem[given_path] = "/"
        r == IF given_path = NULLP
                 THEN [fault |-> "none", echo |-> FALSE, new_path |-> cd_no_argument(home)]
             ELSE IF t.tokens[0] = NULLP
                 THEN [fault |-> "null", echo |-> FALSE, new_path |-> <<>>]
             ELSE IF path[1] = <<"~">>
                 THEN [fault |-> "none", echo |-> FALSE,
                       new_path |-> cd_append(home, [path EXCEPT ![1] = <<>>], 1)]
             ELSE IF path[1] = <<"-">>
                 THEN IF old_path = NullStr
                      THEN [fault |-> "null", echo |-> FALSE, new_path |-> <<>>]
                      ELSE [fault |-> "none", echo |-> TRUE, new_path |-> old_path]
             ELSE IF rooted
                 THEN [fault |-> "none", echo |-> FALSE,
                       new_path |-> cd_append(<<"/">>, path, 1)]
             ELSE [fault |-> "none", echo |-> FALSE,
                   new_path |-> cd_append(cur_path, path, 1)]
    IN  IF r.fault = "none" /\ Len(r.new_path) + 1 > PATH_MAX
        THEN [r EXCEPT !.fault = "overflow"]
        ELSE r

----------------------------------------------------------------------------
(* The lines the shell is given *)

w_exit == <<"e", "x", "i", "t">>
w_cd == <<"c", "d">>
Amp == <<"&">>
SP == <<" ">>
NL == <<"\n">>
w_x == <<"x">>
w_n == <<"n">>
w_a == <<"a">>

Lines ==
    { NL,
      w_exit \o NL,
      w_exit \o SP \o w_a \o NL,
      w_exit \o SP \o w_a \o SP \o w_a \o NL,
      w_x \o SP \o w_a \o SP \o w_a \o SP \o w_a \o NL,
      w_x \o NL,
      SP \o w_x \o NL,
      w_x \o SP \o Amp \o NL,
      w_x \o SP \o SP \o Amp \o NL,
      w_x \o SP \o Amp \o w_a \o NL,
      w_x \o SP \o w_a \o Amp \o NL,
      w_n \o NL,
      w_n \o SP \o Amp \o NL,
      w_x \o SP \o SP \o Amp,
      w_cd \o SP \o <<"n">> \o NL,
      w_cd \o SP \o <<"~", "~", "~", "~", "~", "~", "~", "~", "~", "~">> \o NL }

\* the names a generated cd argument is made of
SegNames == {<<"a">>, <<".", ".">>, <<"~">>}

RECURSIVE Joined(_)
\* the names of segs, each with a "/" before it
Joined(segs) == IF segs = <<>> THEN <<>> ELSE <<"/">> \o Head(segs) \o Joined(Tail(segs))

\* cd arguments: every path of 1..MaxSegs names, relative and absolute, and some
\* with "-", with doubled or trailing separators, or with no name at all
CdArgs ==
    LET seqs == UNION {[1..n -> SegNames] : n \in 1..MaxSegs}
    IN  {Joined(q) : q \in seqs} \cup {Tail(Joined(q)) : q \in seqs}
        \cup { <<"-">>, <<"-", "/", "a">>, <<"a", "/", "-">>, <<"/", "-">>,
               <<"a", "/", "/", "a">>, <<"a", "/">>, <<"/", "/", "a">>,
               <<"/">>, <<"/", "/">> }

\* the lines of the single-iteration specification
IterLines ==
    Lines \cup {Amp \o NL, w_cd \o NL} \cup {w_cd \o SP \o a \o NL : a \in CdArgs}

AllLines == Lines \cup IterLines


----------------------------------------------------------------------------
(* main(): reading and tokenizing a line *)


\* programs execvp() finds; every other name fails with ENOENT
Executables == {<<"x">>}

\* values a byte the program never wrote may have
Indeterminate == {NUL, "&", "?"}

Idle == [pc |-> "idle"]

NoLast ==
    [kind |-> "none", args |-> <<>>, ret |-> 0, diag |-> FALSE, status |-> -1,
     given |-> NullStr, new_path |-> <<>>, fault |-> "none", chdir |-> "none",
     setenv |-> "none", echo |-> FALSE, pid |-> 0, job |-> FALSE,
     cur_path |-> <<>>, old_path |-> NullStr, after_dash |-> FALSE]

\* Parse without line 227: arg_count keeps the number of tokens stored
Parse_count_kept(line) ==
    LET t == tokenize(MemOf(line), 1, {" ", "\n"}, BIG_NUM)
    IN  [mem       |-> t.mem,
         tokens    |-> t.tokens,
         ret       |-> t.ret,
         found     |-> t.token_count,
         arg_count |-> t.token_count,
         args      |-> [i \in 1..t.token_count |-> CStr(t.mem, t.tokens[i - 1])]]

\* getline() and tokenize() of lines 212-230: the buffer, command_args, arg_count
Parse(line) ==
    LET t == tokenize(MemOf(line), 1, {" ", "\n"}, BIG_NUM)
    IN  [mem       |-> t.mem,
         tokens    |-> t.tokens,
         ret       |-> t.ret,
         found     |-> t.token_count,
         arg_count |-> IF t.ret # 0 THEN 0 ELSE t.token_count,
         args      |-> [i \in 1..t.token_count |-> CStr(t.mem, t.tokens[i - 1])]]

\* Branch with exit recognised only when it is the line's only token
Branch_exit_alone(p) ==
    IF p.arg_count = 0 THEN "none"
    ELSE IF p.args[1] = w_exit /\ p.arg_count = 1 THEN "exit"
    ELSE IF p.args[1] = w_cd /\ p.arg_count > 1 /\ Len(p.args[2]) > PATH_MAX
        THEN "cd_toolong"
    ELSE IF p.args[1] = w_cd THEN "cd"
    ELSE "launch"

\* which branch of the dispatch of lines 235-253 a parsed line takes
Branch(p) ==
    IF p.arg_count = 0 THEN "none"
    ELSE IF p.args[1] = w_exit THEN "exit"
    ELSE IF p.args[1] = w_cd /\ p.arg_count > 1 /\ Len(p.args[2]) > PATH_MAX
        THEN "cd_toolong"
    ELSE IF p.args[1] = w_cd THEN "cd"
    ELSE "launch"

\* every line's parse and branch, computed once
Parsed == [line \in AllLines |-> Parse(line)]
BranchOf == [line \in AllLines |-> Branch(Parsed[line])]

\* the getline() call returns: a line was read, or (atEof) the stream has ended and
\* the buffer is whatever it holds
Getline(atEof) ==
    /\ pc = "read"
    /\ eof => atEof
    /\ eof' = atEof
    /\ first' = FALSE

LastOf(p, kind) == [NoLast EXCEPT !.kind = kind, !.args = p.args, !.ret = p.ret]

\* the iteration recorded in l was a cd - whose chdir and setenv calls all succeeded
DashSucceeded(l) ==
    l.kind = "cd" /\ l.given = <<"-">> /\ l.chdir = "ok" /\ l.setenv = "none"

----------------------------------------------------------------------------
(* main(): the iterations that launch nothing *)

\* the first getline() is handed the uninitialised input and input_len
GetlineUninit ==
    /\ pc = "read" /\ first
    /\ pc' = "crashed"
    /\ first' = FALSE
    /\ last' = [NoLast EXCEPT !.kind = "crash"]
    /\ UNCHANGED <<eof, cwd, env, sigchld, children, cur, tk>>

\* no token: nothing is dispatched
NoOp(line, atEof) ==
    LET p == Parsed[line] IN
    /\ Getline(atEof)
    /\ p.ret = 0 /\ BranchOf[line] = "none"
    /\ last' = LastOf(p, "noop")
    /\ UNCHANGED <<pc, cwd, env, sigchld, children, cur, tk>>

\* tokenize reported -1: "Exceeded length", arg_count = 0
Overflow(line, atEof) ==
    LET p == Parsed[line] IN
    /\ Getline(atEof)
    /\ p.ret # 0
    /\ last' = [LastOf(p, "overflow") EXCEPT !.diag = TRUE]
    /\ UNCHANGED <<pc, cwd, env, sigchld, children, cur, tk>>

\* exit(EXIT_SUCCESS)
Exit(line, atEof) ==
    LET p == Parsed[line] IN
    /\ Getline(atEof)
    /\ BranchOf[line] = "exit"
    /\ pc' = "exited"
    /\ last' = [LastOf(p, "exit") EXCEPT !.status = 0]
    /\ children' = <<>>
    /\ UNCHANGED <<cwd, env, sigchld, cur, tk>>

\* "ERROR: Path Invalid: too long"
CdTooLong(line, atEof) ==
    LET p == Parsed[line] IN
    /\ Getline(atEof)
    /\ BranchOf[line] = "cd_toolong"
    /\ last' = [LastOf(p, "cd_toolong") EXCEPT !.diag = TRUE]
    /\ UNCHANGED <<pc, cwd, env, sigchld, children, cur, tk>>

----------------------------------------------------------------------------
(* cd() *)

\* cd_apply with OLDPWD set from cur_path before the result of chdir is looked at
cd_apply_oldpwd_first(r, l, setenv_fails, smash) ==
    LET to == chdir(cwd, r.new_path)
        ok == r.fault = "none" /\ to.errno = "0"
        dead == r.fault = "null" \/ (r.fault = "overflow" /\ smash)
    IN  /\ pc' = IF dead THEN "crashed" ELSE "read"
        /\ cwd' = IF ok THEN to.dir ELSE cwd
        /\ env' = IF dead THEN env
                  ELSE IF ~ok \/ setenv_fails = "PWD"
                       THEN [env EXCEPT !.OLDPWD = PathStr(cwd)]
                  ELSE [env EXCEPT !.OLDPWD = PathStr(cwd), !.PWD = r.new_path]
        /\ children' = IF dead THEN <<>> ELSE children
        /\ last' = [l EXCEPT
                      !.new_path = r.new_path,
                      !.fault = r.fault,
                      !.echo = r.echo,
                      !.chdir = IF dead THEN "none" ELSE IF ok THEN "ok" ELSE "fail",
                      !.setenv = IF ok THEN setenv_fails ELSE "none",
                      !.diag = ~dead /\ (~ok \/ setenv_fails # "none")]

\* cd_apply with OLDPWD set from new_path instead of cur_path
cd_apply_oldpwd_new_path(r, l, setenv_fails, smash) ==
    LET to == chdir(cwd, r.new_path)
        ok == r.fault = "none" /\ to.errno = "0"
        dead == r.fault = "null" \/ (r.fault = "overflow" /\ smash)
    IN  /\ pc' = IF dead THEN "crashed" ELSE "read"
        /\ cwd' = IF ok THEN to.dir ELSE cwd
        /\ env' = IF ~ok \/ setenv_fails = "OLDPWD" THEN env
                  ELSE IF setenv_fails = "PWD"
                       THEN [env EXCEPT !.OLDPWD = r.new_path]
                  ELSE [env EXCEPT !.OLDPWD = r.new_path, !.PWD = r.new_path]
        /\ children' = IF dead THEN <<>> ELSE children
        /\ last' = [l EXCEPT
                      !.new_path = r.new_path,
                      !.fault = r.fault,
                      !.echo = r.echo,
                      !.chdir = IF dead THEN "none" ELSE IF ok THEN "ok" ELSE "fail",
                      !.setenv = IF ok THEN setenv_fails ELSE "none",
                      !.diag = ~dead /\ (~ok \/ setenv_fails # "none")]

\* what cd does once new_path is assembled: chdir and the two setenv calls.
\* setenv_fails is the call of setenv ("OLDPWD", "PWD") that fails, or "none";
\* smash tells whether an overflow of new_path kills the process.
cd_apply(r, l, setenv_fails, smash) ==
    LET to == chdir(cwd, r.new_path)
        ok == r.fault = "none" /\ to.errno = "0"
        dead == r.fault = "null" \/ (r.fault = "overflow" /\ smash)
    IN  /\ pc' = IF dead THEN "crashed" ELSE "read"
        /\ cwd' = IF ok THEN to.dir ELSE cwd
        /\ env' = IF ~ok \/ setenv_fails = "OLDPWD" THEN env
                  ELSE IF setenv_fails = "PWD"
                       THEN [env EXCEPT !.OLDPWD = PathStr(cwd)]
                  ELSE [env EXCEPT !.OLDPWD = PathStr(cwd), !.PWD = r.new_path]
        /\ children' = IF dead THEN <<>> ELSE children
        /\ last' = [l EXCEPT
                      !.new_path = r.new_path,
                      !.fault = r.fault,
                      !.echo = r.echo,
                      !.chdir = IF dead THEN "none" ELSE IF ok THEN "ok" ELSE "fail",
                      !.setenv = IF ok THEN setenv_fails ELSE "none",
                      !.diag = ~dead /\ (~ok \/ setenv_fails # "none")]

\* the cd branch of main and the call of cd(command_args[1])
Cd(line, atEof) ==
    LET p == Parsed[line]
        given == p.tokens[1]
        r == cd_new_path(p.mem, given, PathStr(cwd), env.HOME, env.OLDPWD)
    IN  /\ Getline(atEof)
        /\ BranchOf[line] = "cd"
        /\ \E setenv_fails \in {"none", "OLDPWD", "PWD"}, smash \in BOOLEAN :
              cd_apply(r, [LastOf(p, "cd") EXCEPT
                                 !.given = IF given = NULLP THEN NullStr ELSE p.args[2],
                                 !.cur_path = PathStr(cwd),
                                 !.old_path = env.OLDPWD,
                                 !.after_dash = DashSucceeded(last)],
                       setenv_fails, smash)
        /\ UNCHANGED <<sigchld, cur, tk>>

----------------------------------------------------------------------------
(* main(): launching a program *)

\* the pid fork() gives the new child
NewPid == CHOOSE n \in 1..(MaxKids + 1) : n \notin DOMAIN children

Without(f, k) == [x \in DOMAIN f \ {k} |-> f[x]]

\* the child as fork() creates it: its copy of command, of command_args (the tokens
\* and the sentinel after them, slot k of the array being element k + 1 here) and
\* of arg_count
ChildStart(args) ==
    [st |-> "forked", command |-> args[1], command_args |-> Append(args, NullStr),
     arg_count |-> Len(args)]

\* fork() fails: perror("Fork failed: "); exit(EXIT_FAILURE)
ForkFail(line, atEof) ==
    LET p == Parsed[line] IN
    /\ Getline(atEof)
    /\ BranchOf[line] = "launch"
    /\ pc' = "exited"
    /\ last' = [LastOf(p, "fork_failed") EXCEPT !.status = 1, !.diag = TRUE]
    /\ children' = <<>>
    /\ UNCHANGED <<cwd, env, sigchld, cur, tk>>

\* fork() succeeds: the child starts with a copy of command, command_args and
\* arg_count; the parent goes on at line 293
Fork(line, atEof) ==
    LET p == Parsed[line] IN
    /\ Getline(atEof)
    /\ BranchOf[line] = "launch"
    /\ Cardinality(DOMAIN children) < MaxKids
    /\ pc' = "forked"
    /\ children' = (NewPid :> ChildStart(p.args)) @@ children
    /\ cur' = [pc |-> "launch", mem |-> p.mem, tokens |-> p.tokens,
               arg_count |-> p.arg_count, child_pid |-> NewPid]
    /\ last' = [LastOf(p, "launch") EXCEPT !.pid = NewPid]
    /\ UNCHANGED <<cwd, env, sigchld, tk>>

\* the status a process that called exit(ret) is seen to have terminated with
ExitStatus(ret) == ret % 256

\* the statuses a launched program terminates with
ProgramStatus == {0, 1}

\* a child of the shell terminates: with SIGCHLD ignored it is reclaimed at once,
\* otherwise it stays a zombie until the shell waits for it
Terminated(pid, status) ==
    IF sigchld = "IGN" THEN Without(children, pid)
    ELSE [children EXCEPT ![pid] = [st |-> "zombie", status |-> status]]

\* child_trim that leaves command_args as it is
child_trim_nothing(command_args, arg_count) == command_args

\* lines 274-277: a last token that is "&" is replaced by the null pointer
child_trim(command_args, arg_count) ==
    IF command_args[arg_count] = Amp
    THEN [command_args EXCEPT ![arg_count] = NullStr]
    ELSE command_args

\* the argument vector execvp() reads from command_args: the elements before the
\* first null pointer
Argv(command_args) ==
    LET n == CHOOSE i \in 1..Len(command_args) :
                 /\ command_args[i] = NullStr
                 /\ \A j \in 1..(i - 1) : command_args[j] # NullStr
    IN  SubSeq(command_args, 1, n - 1)

\* the child branch up to the return of execvp, lines 264-278: trim a trailing "&"
\* and call execvp, which either makes the child the program or returns -1
ChildExec(pid) ==
    LET c == children[pid]
        argv == child_trim(c.command_args, c.arg_count)
    IN  /\ c.st = "forked"
        /\ children' =
              [children EXCEPT ![pid] =
                  IF c.command \in Executables
                  THEN [st |-> "running", command |-> c.command, command_args |-> argv]
                  ELSE [st |-> "failed", ret |-> -1, diag |-> TRUE]]
        /\ UNCHANGED <<pc, first, eof, cwd, env, sigchld, cur, last, tk>>

\* the child terminates: the program it became ends, or after a failed execvp the
\* child has written its diagnostic and calls exit(ret), lines 280-285
ChildExit(pid) ==
    LET c == children[pid] IN
    /\ c.st \in {"running", "failed"}
    /\ \E status \in (IF c.st = "failed" THEN {ExitStatus(c.ret)} ELSE ProgramStatus) :
          children' = Terminated(pid, status)
    /\ UNCHANGED <<pc, first, eof, cwd, env, sigchld, cur, last, tk>>

\* the byte at mem[i], or an indeterminate byte when i lies outside the string
ByteAt(mem, i, indet) == IF i >= 1 /\ i <= Len(mem) THEN mem[i] ELSE indet

\* final_arg[strlen(final_arg - 1)] of line 304
FinalArgByte(mem, final_arg, before, after) ==
    LET n == IF ByteAt(mem, final_arg - 1, before) = NUL THEN 0
             ELSE 1 + strlen_at(mem, final_arg)
    IN  ByteAt(mem, final_arg + n, after)

\* the parent branch, lines 293-312, up to the wait: signal(SIGCHLD, SIG_IGN), then
\* the test that chooses between wait(NULL) and the Job notice
ParentAfterFork ==
    /\ pc = "forked"
    /\ sigchld' = "IGN"
    /\ \E before \in Indeterminate, after \in Indeterminate :
          LET final_arg == cur.tokens[cur.arg_count - 1]
              wait == FinalArgByte(cur.mem, final_arg, before, after) # "&"
          IN  /\ pc' = IF wait THEN "wait" ELSE "read"
              /\ cur' = IF wait THEN cur ELSE Idle
              /\ last' = [last EXCEPT !.job = ~wait]
    /\ UNCHANGED <<first, eof, cwd, env, children, tk>>

Zombies == {pid \in DOMAIN children : children[pid].st = "zombie"}

\* the children wait(NULL) can return with: a zombie to reap, or 0 (ECHILD) when the
\* shell has no child at all; with neither, wait blocks
Waitable == IF Zombies # {} THEN Zombies
            ELSE IF DOMAIN children = {} THEN {0}
            ELSE {}

\* wait(NULL) returns; lines 315-323 clear the iteration
Wait ==
    /\ pc = "wait"
    /\ \E z \in Waitable : children' = Without(children, z)
    /\ pc' = "read"
    /\ cur' = Idle
    /\ UNCHANGED <<first, eof, cwd, env, sigchld, last, tk>>

----------------------------------------------------------------------------
(* The shell *)

\* the shell as it starts, in one of the directories cwds, with HOME among homes
\* and OLDPWD among olds (NullStr: not set)
Start(cwds, homes, olds) ==
    /\ pc = "read"
    /\ first = TRUE
    /\ eof = FALSE
    /\ cwd \in cwds
    /\ env \in [HOME : homes, OLDPWD : olds, PWD : {PathStr(d) : d \in cwds}]
    /\ env.PWD = PathStr(cwd)
    /\ sigchld = "DFL"
    /\ children = <<>>
    /\ cur = Idle
    /\ last = NoLast
    /\ tk = Idle

Init == Start({<<>>}, {PathStr(<<DirName>>)}, {NullStr})

Next ==
    \/ GetlineUninit
    \/ \E line \in Lines, atEof \in BOOLEAN :
          \/ NoOp(line, atEof)
          \/ Overflow(line, atEof)
          \/ Exit(line, atEof)
          \/ CdTooLong(line, atEof)
          \/ Cd(line, atEof)
          \/ ForkFail(line, atEof)
          \/ Fork(line, atEof)
    \/ ParentAfterFork
    \/ Wait
    \/ \E pid \in DOMAIN children : ChildExec(pid)
    \/ \E pid \in DOMAIN children : ChildExit(pid)

Spec == Init /\ [][Next]_vars

----------------------------------------------------------------------------
(* One iteration of the loop, from every start and on every line of IterLines *)

IterInit ==
    Start(Dirs, {PathStr(<<DirName>>), PathStr(<<DirName, DirName>>)},
          {NullStr} \cup {PathStr(d) : d \in Dirs})

IterNext ==
    \/ first /\ \E line \in IterLines, atEof \in BOOLEAN : NoOp(line, atEof)
    \/ first /\ \E line \in IterLines, atEof \in BOOLEAN : Overflow(line, atEof)
    \/ first /\ \E line \in IterLines, atEof \in BOOLEAN : Exit(line, atEof)
    \/ first /\ \E line \in IterLines, atEof \in BOOLEAN : CdTooLong(line, atEof)
    \/ first /\ \E line \in IterLines, atEof \in BOOLEAN : Cd(line, atEof)
    \/ first /\ \E line \in IterLines, atEof \in BOOLEAN : ForkFail(line, atEof)
    \/ first /\ \E line \in IterLines, atEof \in BOOLEAN : Fork(line, atEof)
    \/ ParentAfterFork
    \/ Wait
    \/ \E pid \in DOMAIN children : ChildExec(pid)
    \/ \E pid \in DOMAIN children : ChildExit(pid)

IterSpec == IterInit /\ [][IterNext]_vars

----------------------------------------------------------------------------
(* A session of cd commands, from every start directory and OLDPWD *)

CdLines ==
    { w_cd \o SP \o <<"-">> \o NL,
      w_cd \o NL,
      w_cd \o SP \o w_a \o NL,
      w_cd \o SP \o <<".", ".">> \o NL }

\* OLDPWD as the shell inherits it: not set, the path getcwd() gives for a
\* directory, or another absolute path of one
CdInit ==
    Start(Dirs, {PathStr(<<DirName>>)},
          {NullStr, <<"/", "a", "/">>, <<"/", "a", "/", ".", ".">>}
              \cup {PathStr(d) : d \in Dirs})

CdNext == \E line \in CdLines, atEof \in BOOLEAN : Cd(line, atEof)

CdSpec == CdInit /\ [][CdNext]_vars

----------------------------------------------------------------------------
(* The tokenizer on its own, on every bounded input *)

TkChars == {"a", "&", " ", "/"}
TkDelims == {{" ", "\n"}, {"/"}, {" ", "/"}, {}}
TkStrings == UNION {[1..n -> TkChars] : n \in 0..MaxStrLen}

TkInit ==
    /\ tk \in [pc : {"call"}, string : TkStrings, delimiter : TkDelims,
               limit : 1..MaxCap]
    /\ pc = "off" /\ first = FALSE /\ eof = FALSE
    /\ cwd = <<>> /\ env = <<>> /\ sigchld = "DFL" /\ children = <<>>
    /\ cur = Idle /\ last = NoLast

TkCall ==
    /\ tk.pc = "call"
    /\ tk' = [pc |-> "done", string |-> tk.string, delimiter |-> tk.delimiter,
              limit |-> tk.limit,
              res |-> tokenize(MemOf(tk.string), 1, tk.delimiter, tk.limit)]
    /\ UNCHANGED <<pc, first, eof, cwd, env, sigchld, children, cur, last>>

TkNext == TkCall

TkSpec == TkInit /\ [][TkNext]_vars

----------------------------------------------------------------------------
(* The child branch on its own, on every bounded command_args.  The branch does  *)
(* not depend on BIG_NUM: it is started here with up to MaxArgs tokens.          *)

ChildWords == {w_x, w_a, Amp, Amp \o w_a}
ChildArgs == UNION {[1..n -> ChildWords] : n \in 1..MaxArgs}

ChildInit ==
    /\ children \in {1 :> ChildStart(args) : args \in ChildArgs}
    /\ sigchld \in {"DFL", "IGN"}
    /\ pc = "off" /\ first = FALSE /\ eof = FALSE
    /\ cwd = <<>> /\ env = <<>>
    /\ cur = Idle /\ last = NoLast /\ tk = Idle

ChildNext ==
    \/ \E pid \in DOMAIN children : ChildExec(pid)
    \/ \E pid \in DOMAIN children : ChildExit(pid)

ChildSpec == ChildInit /\ [][ChildNext]_vars

----------------------------------------------------------------------------
(* What the stand-alone tokenizer is expected to produce *)

\* the words of s: the maximal runs of bytes that are not delimiters, as <<from, to>>
WordRuns(s, delim) ==
    {r \in (1..Len(s)) \X (1..Len(s)) :
        /\ r[1] <= r[2]
        /\ \A k \in r[1]..r[2] : s[k] \notin delim
        /\ r[1] = 1 \/ s[r[1] - 1] \in delim
        /\ r[2] = Len(s) \/ s[r[2] + 1] \in delim}

\* the k-th word of s, counted from 1
WordAt(s, delim, k) ==
    LET runs == WordRuns(s, delim)
        r == CHOOSE r \in runs : Cardinality({q \in runs : q[1] < r[1]}) = k - 1
    IN  SubSeq(s, r[1], r[2])

TkWords == Cardinality(WordRuns(tk.string, tk.delimiter))

\* C5: for every string, delimiter set and capacity >= 1, tokenize stores exactly the
\* first min(N, capacity-1) words in order in slots 0..count-1, returns that count,
\* writes the null sentinel at slot count and writes no slot at or beyond the capacity
C5_TokenizeStoresFirstWords ==
    tk.pc = "done" =>
        LET n == Min(TkWords, tk.limit - 1) IN
        /\ tk.res.token_count = n
        /\ DOMAIN tk.res.tokens = 0..n
        /\ \A k \in 0..(n - 1) :
              /\ tk.res.tokens[k] # NULLP
              /\ CStr(tk.res.mem, tk.res.tokens[k]) = WordAt(tk.string, tk.delimiter, k + 1)
        /\ tk.res.tokens[n] = NULLP
        /\ \A slot \in DOMAIN tk.res.tokens : slot < tk.limit
        /\ (TkWords = 0 => tk.res.token_count = 0)

\* a call that had to drop words and one on an input of delimiters only
C5_Witness ==
    /\ tk.pc = "done"
    /\ TkWords > tk.limit - 1
    /\ tk.res.token_count = 2

\* C6: tokenize reports overflow exactly when more than capacity-1 words exist
C6_OverflowIffWordsDropped ==
    tk.pc = "done" => ((tk.res.ret # 0) <=> (TkWords > tk.limit - 1))

----------------------------------------------------------------------------
(* Claims about the command loop *)

\* a step that is an iteration of the loop: the line is read, tokenized and
\* dispatched (an iteration that changes nothing at all is a stuttering step)
IterationStep == pc = "read" /\ last' # last

\* the child has terminated: it is a zombie or has been reclaimed
ChildGone(pid) == pid \notin DOMAIN children \/ children[pid].st = "zombie"

LastToken == last.args[Len(last.args)]

\* C1: after a launch, a last token that is exactly "&" gives a Job notice and no
\* wait; any other last token makes the shell wait, so that it is back at the prompt
\* only once the child it created has terminated
C1_WaitUnlessTrailingAmp ==
    last.kind = "launch" =>
        IF LastToken = Amp
        THEN pc # "wait" /\ (pc = "read" => last.job)
        ELSE pc = "read" => (~last.job /\ ChildGone(last.pid))

\* C2: a foreground wait never stays blocked once its own child has terminated,
\* whatever other children are still running
C2_ForegroundWaitsForOwnChildOnly ==
    (pc = "wait" /\ ChildGone(cur.child_pid)) => Waitable # {}

\* C3: once end-of-input has been reached the shell has terminated with status 0
C3_EndOfInputExits ==
    eof => (pc = "exited" /\ last.status = 0)

\* C4 as stated: every line whose first token is "exit" terminates the shell with
\* status 0, and status 0 is reached only through such a line
C4_ExitLineAlwaysExits ==
    /\ (last.args # <<>> /\ last.args[1] = w_exit) => (pc = "exited" /\ last.status = 0)
    /\ (pc = "exited" /\ last.status = 0) => (last.args # <<>> /\ last.args[1] = w_exit)

\* C4, amended: every line for which tokenize does not report overflow and whose
\* first token is "exit" terminates the shell at once with status 0, whatever its
\* other tokens, with no cd, fork, signal or wait in that iteration; and the shell
\* terminates with status 0 only through such a line
C4_ExitLineExitsUnlessOverflow ==
    [][ /\ (IterationStep /\ last'.ret = 0 /\ last'.args # <<>> /\ last'.args[1] = w_exit)
            => /\ pc' = "exited" /\ last'.status = 0 /\ last'.kind = "exit"
               /\ cwd' = cwd /\ env' = env /\ sigchld' = sigchld /\ cur' = cur
               /\ DOMAIN children' \subseteq DOMAIN children
        /\ (pc # "exited" /\ pc' = "exited" /\ last'.status = 0)
            => /\ IterationStep
               /\ last'.ret = 0 /\ last'.args # <<>> /\ last'.args[1] = w_exit
      ]_vars

\* the shell has exited on an exit line that has further tokens
C4_Witness ==
    pc = "exited" /\ last.kind = "exit" /\ last.status = 0 /\ Len(last.args) > 1

----------------------------------------------------------------------------
(* Claims about cd *)

\* the OS-level directory change of the iteration just made succeeded / failed
ChdirSucceeded == last'.kind = "cd" /\ last'.fault = "none"
                  /\ chdir(cwd, last'.new_path).errno = "0"
ChdirFailed == last'.kind = "cd" /\ last'.chdir = "fail"

\* C7: OLDPWD and PWD change only in an iteration whose chdir succeeded; a cd whose
\* chdir fails leaves OLDPWD, PWD and the working directory as they were and writes
\* a diagnostic; every other iteration leaves OLDPWD and PWD as they were
C7_EnvChangesOnlyOnSuccessfulChdir ==
    [][ /\ (env'.OLDPWD # env.OLDPWD \/ env'.PWD # env.PWD)
            => (IterationStep /\ ChdirSucceeded)
        /\ (IterationStep /\ ChdirFailed)
            => (env' = env /\ cwd' = cwd /\ last'.diag)
        /\ (IterationStep /\ last'.kind # "cd")
            => (env' = env /\ cwd' = cwd)
      ]_vars

\* a cd to a path that does not exist has failed
C7_Witness ==
    /\ last.kind = "cd" /\ last.fault = "none" /\ last.chdir = "fail" /\ last.diag
    /\ last.given = <<"a", "/", "~">>

\* the cd of the iteration just made went through: chdir and both setenv calls
CdSucceeded == last'.kind = "cd" /\ last'.chdir = "ok" /\ last'.setenv = "none"

\* C8: a successful cd /s1/.../sn from C makes /s1/.../sn the working directory,
\* sets OLDPWD to C and PWD to the string /s1/.../sn
C8_AbsoluteCd ==
    [][ LET names == Components(last'.given, <<>>) IN
        (/\ IterationStep /\ CdSucceeded
         /\ names # <<>> /\ last'.given = Joined(names))
            => /\ cwd' = Walk(<<>>, names).dir
               /\ env'.OLDPWD = PathStr(cwd)
               /\ env'.PWD = last'.given
      ]_vars

\* the argument of the cd just made takes neither the "/" nor the "~" nor the "-"
\* anchor by the claim's reading: it is not "~", not "-" and does not start with "/"
RelativeArg(given) ==
    /\ given # NullStr /\ given[1] # "/"
    /\ given # <<"~">> /\ given # <<"-">>

\* what C9 expects of a successful cd with the names s1..sn from directory C
RelativeCdResult(names) ==
    LET assembled == PathStr(cwd) \o Joined(names) IN
    /\ last'.new_path = assembled
    /\ cwd' = chdir(cwd, assembled).dir
    /\ env'.OLDPWD = PathStr(cwd)
    /\ env'.PWD = assembled

C10_TildeSameAsNoArgument ==
    [][ (IterationStep /\ last'.kind = "cd" /\ last'.given = <<"~">>)
            => LET noarg == cd_new_path(<<NUL>>, NULLP, PathStr(cwd), env.HOME,
                                        env.OLDPWD)
               IN  /\ last'.new_path = noarg.new_path
                   /\ CdSucceeded
                        => /\ cwd' = chdir(cwd, noarg.new_path).dir
                           /\ env'.OLDPWD = PathStr(cwd)
                           /\ env'.PWD = noarg.new_path
      ]_vars

----------------------------------------------------------------------------
(* Claims about the capacity of new_path and about cd's anchors *)

\* C11: the path cd assembles, terminator included, never exceeds the PATH_MAX bytes
\* of new_path, for every argument the length check of main lets through and every
\* anchor
C11_NewPathWithinCapacity ==
    last.kind = "cd" => Len(last.new_path) + 1 <= PATH_MAX

\* C12: cd - assembles exactly the value of OLDPWD, echoes it, and on success sets
\* OLDPWD to the directory that was current before the call and PWD to the former
\* value of OLDPWD
C12_CdDash ==
    [][ (IterationStep /\ last'.kind = "cd" /\ last'.given = <<"-">>)
            => /\ last'.new_path = env.OLDPWD
               /\ last'.echo
               /\ CdSucceeded => /\ env'.OLDPWD = PathStr(cwd)
                                 /\ env'.PWD = env.OLDPWD
      ]_vars

\* C13: cd with no argument assembles exactly the value of HOME, and on success
\* makes it the working directory, sets PWD to the value of HOME and OLDPWD to the
\* directory that was current before the call
C13_CdNoArgumentTargetsHome ==
    [][ (IterationStep /\ last'.kind = "cd" /\ Len(last'.args) = 1)
            => /\ last'.given = NullStr
               /\ last'.new_path = env.HOME
               /\ ~last'.echo
               /\ CdSucceeded => /\ cwd' = chdir(cwd, env.HOME).dir
                                 /\ env'.PWD = env.HOME
                                 /\ env'.OLDPWD = PathStr(cwd)
      ]_vars

\* cd with no argument from /a/a/a has gone to the home directory /a
C13_Witness ==
    /\ last.kind = "cd" /\ Len(last.args) = 1
    /\ last.chdir = "ok" /\ last.setenv = "none"
    /\ cwd = <<DirName>>
    /\ env.HOME = <<"/", "a">> /\ env.PWD = <<"/", "a">>
    /\ env.OLDPWD = <<"/", "a", "/", "a", "/", "a">>

\* C16: the HOME and OLDPWD anchors are taken only for an argument that is exactly
\* "~" or exactly "-"; every other argument that does not begin with "/" (here: of
\* no more segments than cd's tokenize call keeps) is assembled as the current
\* directory followed by all of its segments, with nothing echoed
C16_SpecialAnchorsOnlyForExactArgument ==
    [][ LET names == Components(last'.given, <<>>) IN
        (/\ IterationStep /\ last'.kind = "cd" /\ RelativeArg(last'.given)
         /\ Len(names) <= BIG_NUM - 1)
            => /\ last'.fault # "null"
               /\ last'.new_path = PathStr(cwd) \o Joined(names)
               /\ ~last'.echo
      ]_vars

\* C17: cd with an argument of separators only ("/", "//") takes the root anchor and
\* asks for the root directory without a fault, and the shell goes on to the next
\* prompt in the root directory
C17_CdRootWithoutSegments ==
    [][ (/\ IterationStep /\ last'.kind = "cd"
         /\ last'.given # NullStr /\ last'.given[1] = "/"
         /\ Components(last'.given, <<>>) = <<>>)
            => /\ last'.fault = "none"
               /\ chdir(cwd, last'.new_path) = [errno |-> "0", dir |-> <<>>]
               /\ pc' = "read"
               /\ last'.chdir = "ok" /\ cwd' = <<>>
      ]_vars

\* the directory an absolute path names
DirOf(path) == chdir(<<>>, path).dir

\* C20 as stated: of two consecutive successful cd - commands, started in directory
\* A with OLDPWD = B, an absolute path of an existing directory, the first leaves the
\* shell in B with OLDPWD = A and the second leaves it in A with OLDPWD = B again
C20_CdDashTwiceRestoresOldpwd ==
    [][ (/\ IterationStep /\ DashSucceeded(last) /\ DashSucceeded(last')
         /\ last.old_path[1] = "/")
            => LET A == last.cur_path
                   B == last.old_path
               IN  /\ cwd = DirOf(B) /\ env.OLDPWD = A
                   /\ PathStr(cwd') = A
                   /\ env'.OLDPWD = B
      ]_vars

\* C20, amended: the same, with OLDPWD naming the directory B at the end, and being
\* the string B again when B is the path getcwd() gives for that directory
C20_CdDashTwiceRestores ==
    [][ (/\ IterationStep /\ DashSucceeded(last) /\ DashSucceeded(last')
         /\ last.old_path[1] = "/")
            => LET A == last.cur_path
                   B == last.old_path
               IN  /\ cwd = DirOf(B) /\ env.OLDPWD = A
                   /\ PathStr(cwd') = A
                   /\ DirOf(env'.OLDPWD) = DirOf(B)
                   /\ B = PathStr(DirOf(B)) => env'.OLDPWD = B
      ]_vars

\* cd - has succeeded twice in a row from /a/a/a with OLDPWD=/ : the shell is in
\* /a/a/a again and OLDPWD is / again
C20_Witness ==
    /\ DashSucceeded(last) /\ last.after_dash
    /\ last.cur_path = <<"/">>
    /\ cwd = <<DirName, DirName, DirName>>
    /\ env.OLDPWD = <<"/">>

----------------------------------------------------------------------------
(* Claims about the child process *)

\* the child pid has just become the program it was asked to run
Launched(pid) ==
    /\ pid \in DOMAIN children /\ children[pid].st = "forked"
    /\ pid \in DOMAIN children' /\ children'[pid].st = "running"

\* C19: the argument vector handed to the launched program is the line's token
\* sequence, in order and starting with the program name, without its last token
\* when that token is exactly "&" and with no other token removed; the null
\* sentinel follows its last element
C19_ArgvIsTokensWithoutTrailingAmp ==
    [][ \A pid \in DOMAIN children : Launched(pid) =>
          LET c == children[pid]
              tokens == SubSeq(c.command_args, 1, c.arg_count)
              passed == children'[pid].command_args
              argv == Argv(passed)
          IN  /\ argv = IF tokens[c.arg_count] = Amp
                        THEN SubSeq(tokens, 1, c.arg_count - 1)
                        ELSE tokens
              /\ argv[1] = c.command
              /\ passed[Len(argv) + 1] = NullStr
      ]_vars

\* x has been launched from the tokens x, "&", "&": the first "&" is passed on, the
\* last one is not
C19_Witness ==
    /\ 1 \in DOMAIN children
    /\ children[1].st = "running"
    /\ children[1].command_args = <<w_x, Amp, NullStr, NullStr>>

\* the program the line just launched names is one execvp does not find
FailedLaunch == last.kind = "launch" /\ last.args[1] \notin Executables

\* a step of the child pid whose execvp fails: it has reported the failure and is
\* about to exit with a non-zero status, and the shell is where it was
ExecFailureStep(pid) ==
    (/\ children[pid].st = "forked" /\ children[pid].command \notin Executables
     /\ pid \in DOMAIN children' /\ children'[pid] # children[pid])
        => /\ children'[pid].st = "failed"
           /\ children'[pid].diag
           /\ ExitStatus(children'[pid].ret) # 0
           /\ UNCHANGED <<pc, cwd, env, cur, last>>

\* the next step of such a child: it is gone, with a non-zero status, and has read
\* no command
FailedChildStep(pid) ==
    (/\ children[pid].st = "failed"
     /\ pc' \notin {"exited", "crashed"} /\ (pid \notin DOMAIN children' \/ children'[pid] # children[pid]))
        => /\ pid \in DOMAIN children' => /\ children'[pid].st = "zombie"
                                          /\ children'[pid].status # 0
           /\ UNCHANGED <<pc, cwd, env, cur, last>>

\* every child the shell still has is a program that was launched and is running
OnlyProgramsLeft == \A pid \in DOMAIN children : children[pid].st = "running"

\* C14: a child whose execvp fails reports it and terminates with a non-zero status
\* without reading a command; the shell keeps its working directory and environment
\* through its wait-or-Job step, and once that child has terminated the shell's wait
\* returns to the prompt, whatever programs launched earlier are still running
C14_ExecFailureLeavesParentUnaffected ==
    /\ [][ /\ \A pid \in DOMAIN children : ExecFailureStep(pid) /\ FailedChildStep(pid)
           /\ pc \in {"forked", "wait"} => (cwd' = cwd /\ env' = env)
         ]_vars
    /\ []((pc = "wait" /\ FailedLaunch /\ ChildGone(cur.child_pid) /\ OnlyProgramsLeft)
            => Waitable # {})

----------------------------------------------------------------------------
(* Claims about a line with too many tokens *)

\* C15: an iteration whose tokenize call reports overflow writes a diagnostic, sets
\* arg_count to 0 and dispatches nothing (no exit, no cd, no fork, no signal or
\* wait), and the shell is back at the prompt
C15_OverflowDispatchesNothing ==
    [][ (IterationStep /\ last'.ret # 0)
            => /\ last'.kind = "overflow"
               /\ last'.diag
               /\ \A line \in Lines :
                     (Parsed[line].args = last'.args /\ Parsed[line].ret # 0)
                         => Parsed[line].arg_count = 0
               /\ pc' = "read"
               /\ UNCHANGED <<cwd, env, sigchld, children, cur>>
      ]_vars

\* a line of too many tokens that starts with a program name has been read: the
\* shell is at the prompt and has launched nothing
C15_Witness ==
    /\ last.kind = "overflow" /\ last.diag
    /\ last.args[1] = w_x
    /\ pc = "read" /\ children = <<>> /\ sigchld = "DFL"

----------------------------------------------------------------------------
(* Claims about the reclaiming of background children *)

\* C18: once the shell has printed the Job notice of a background line, the child of
\* that line is never an unreaped zombie, however its termination interleaves with
\* the parent's steps after fork()
C18_NoZombieOfBackgroundChild ==
    (last.kind = "launch" /\ LastToken = Amp /\ last.job /\ pc = "read")
        => last.pid \notin Zombies

============================================================================
